---- MODULE Spec2Model ----
(***************************************************************************)
(* Model of the ex command line of vimb (src/src/ex.c): the command        *)
(* registry, the parser that walks a cursor over the NUL terminated input  *)
(* (parse, parse_count, parse_command_name, parse_bang, parse_lhs,         *)
(* parse_rhs, expand_input, skip_whitespace), and the run loop of          *)
(* ex_run_string that dispatches every parsed command to its handler.      *)
(*                                                                         *)
(* Text is a sequence of one-character strings.  The input of              *)
(* ex_run_string lives in memory as the line, its terminating NUL byte and *)
(* whatever bytes follow it (tail); a cursor that walks past the NUL reads *)
(* those bytes.                                                            *)
(***************************************************************************)
EXTENDS Integers, Sequences, FiniteSets, TLC

VARIABLES
    featureQueue,  \* build option FEATURE_QUEUE
    uri,           \* GET_URI(): address of the current page, or NULL
    line,          \* the text handed to ex_run_string
    mem,           \* line, NUL, and the bytes behind the line's NUL
    input,         \* the cursor `input' of ex_run_string: index into mem
    arg,           \* the ExArg of the running ex_run_string
    pc,            \* "idle", "loop" (top of the while loop) or "done"
    iters,         \* one record per executed iteration of the run loop
    echo,          \* messages the parser gives to vb_echo during the call
    result,        \* return value of ex_run_string, "none" while running
    inputbox,      \* content of the input box
    excomp,        \* the static excomp: count, prefix, current
    exhist,        \* the static exhist: prefix, query, the fetched list and
                   \* the position of `active' in it (0: active is NULL)
    comp,          \* the completion widget: FLAG_COMPLETION, its list, its cursor
    last,          \* what the last key did
    keys           \* number of keys handled so far

exvars == <<featureQueue, uri, line, mem, input, arg, pc, iters, echo, result>>
uivars == <<inputbox, excomp, exhist, comp, last, keys>>
vars == <<featureQueue, uri, line, mem, input, arg, pc, iters, echo, result,
          inputbox, excomp, exhist, comp, last, keys>>

-----------------------------------------------------------------------------
(* Characters and text *)

NUL == "NUL"
NULL == <<"NULL">>
S2Q(s) == [i \in 1..Len(s) |-> SubSeq(s, i, i)]

Digits == S2Q("0123456789")
isdigit(c) == \E i \in 1..10 : Digits[i] = c
DigitVal(c) == (CHOOSE i \in 1..10 : Digits[i] = c) - 1

\* the string a char* points to: the bytes up to the first NUL
RECURSIVE CStr(_)
CStr(s) == IF s = <<>> \/ Head(s) = NUL THEN <<>> ELSE <<Head(s)>> \o CStr(Tail(s))

-----------------------------------------------------------------------------
(* Bounds of the checked inputs *)

MaxArgLen == 3

\* number of keys the user presses in the input box
MaxKeys == 5

-----------------------------------------------------------------------------
(* The command registry *)

EX_FLAG_BANG == "EX_FLAG_BANG"
EX_FLAG_LHS == "EX_FLAG_LHS"
EX_FLAG_RHS == "EX_FLAG_RHS"
EX_FLAG_EXP == "EX_FLAG_EXP"

ExInfo(n, c, f, fl) == [name |-> S2Q(n), code |-> c, func |-> f, flags |-> fl]

CommandsHead ==
    << ExInfo("bma", "EX_BMA", "ex_bookmark", {EX_FLAG_RHS}),
       ExInfo("bmr", "EX_BMR", "ex_bookmark", {EX_FLAG_RHS}),
       ExInfo("cmap", "EX_CMAP", "ex_map", {EX_FLAG_LHS, EX_FLAG_RHS}),
       ExInfo("cnoremap", "EX_CNOREMAP", "ex_map", {EX_FLAG_LHS, EX_FLAG_RHS}),
       ExInfo("cunmap", "EX_CUNMAP", "ex_unmap", {EX_FLAG_LHS}),
       ExInfo("hardcopy", "EX_HARDCOPY", "ex_hardcopy", {}),
       ExInfo("eval", "EX_EVAL", "ex_eval", {EX_FLAG_RHS}),
       ExInfo("imap", "EX_IMAP", "ex_map", {EX_FLAG_LHS, EX_FLAG_RHS}),
       ExInfo("inoremap", "EX_INOREMAP", "ex_map", {EX_FLAG_LHS, EX_FLAG_RHS}),
       ExInfo("iunmap", "EX_IUNMAP", "ex_unmap", {EX_FLAG_LHS}),
       ExInfo("nmap", "EX_NMAP", "ex_map", {EX_FLAG_LHS, EX_FLAG_RHS}),
       ExInfo("nnoremap", "EX_NNOREMAP", "ex_map", {EX_FLAG_LHS, EX_FLAG_RHS}),
       ExInfo("normal", "EX_NORMAL", "ex_normal", {EX_FLAG_BANG, EX_FLAG_LHS}),
       ExInfo("nunmap", "EX_NUNMAP", "ex_unmap", {EX_FLAG_LHS}),
       ExInfo("open", "EX_OPEN", "ex_open", {EX_FLAG_RHS}),
       ExInfo("quit", "EX_QUIT", "ex_quit", {}) >>

CommandsQueue ==
    << ExInfo("qunshift", "EX_QUNSHIFT", "ex_queue", {EX_FLAG_RHS}),
       ExInfo("qclear", "EX_QCLEAR", "ex_queue", {EX_FLAG_RHS}),
       ExInfo("qpop", "EX_QPOP", "ex_queue", {}),
       ExInfo("qpush", "EX_QPUSH", "ex_queue", {EX_FLAG_RHS}) >>

CommandsTail ==
    << ExInfo("save", "EX_SAVE", "ex_save", {EX_FLAG_RHS, EX_FLAG_EXP}),
       ExInfo("set", "EX_SET", "ex_set", {EX_FLAG_RHS}),
       ExInfo("shellcmd", "EX_SHELLCMD", "ex_shellcmd", {EX_FLAG_RHS, EX_FLAG_EXP}),
       ExInfo("shortcut-add", "EX_SCA", "ex_shortcut", {EX_FLAG_RHS}),
       ExInfo("shortcut-default", "EX_SCD", "ex_shortcut", {EX_FLAG_RHS}),
       ExInfo("shortcut-remove", "EX_SCR", "ex_shortcut", {EX_FLAG_RHS}),
       ExInfo("tabopen", "EX_TABOPEN", "ex_open", {EX_FLAG_RHS}) >>

CommandsWithQueue == CommandsHead \o CommandsQueue \o CommandsTail
CommandsWithoutQueue == CommandsHead \o CommandsTail

\* the table the build holds; C index i is element i + 1
commands == IF featureQueue THEN CommandsWithQueue ELSE CommandsWithoutQueue
NCommands == Len(commands)

\* commands[i].name[k], k counted from 0; the byte behind the name is NUL
NameChar(i, k) ==
    LET n == commands[i + 1].name IN IF k < Len(n) THEN n[k + 1] ELSE NUL

\* size of the name buffer cmd of parse_command_name
CmdBufLen == 20

-----------------------------------------------------------------------------
(* Reading the input *)

\* the byte at cursor p of buffer m; the memory behind the modelled bytes
\* reads as NUL
Char(m, p) == IF p >= 1 /\ p <= Len(m) THEN m[p] ELSE NUL

RECURSIVE skip_whitespace(_, _)
skip_whitespace(m, p) ==
    IF Char(m, p) # NUL /\ Char(m, p) = " " THEN skip_whitespace(m, p + 1) ELSE p

\* parse, lines 426-428: remove leading whitespace and :
RECURSIVE SkipLeading(_, _)
SkipLeading(m, p) ==
    IF Char(m, p) # NUL /\ (Char(m, p) = ":" \/ Char(m, p) = " ")
    THEN SkipLeading(m, p + 1)
    ELSE p


-----------------------------------------------------------------------------
(* parse_count *)

\* the do-while loop, lines 467-470, entered with a digit at the cursor
RECURSIVE CountLoop(_, _, _)
CountLoop(m, p, count) ==
    IF isdigit(Char(m, p + 1))
    THEN CountLoop(m, p + 1, count * 10 + DigitVal(Char(m, p)))
    ELSE [pos |-> p + 1, count |-> count * 10 + DigitVal(Char(m, p))]

CountDone(a, r) == [pos |-> r.pos, arg |-> [a EXCEPT !.count = r.count]]

\* the digits are added to the count the ExArg already holds
parse_count(m, p, a) ==
    IF ~isdigit(Char(m, p))
    THEN [pos |-> p, arg |-> [a EXCEPT !.count = 0]]
    ELSE CountDone(a, CountLoop(m, p, a.count))

-----------------------------------------------------------------------------
(* parse_command_name *)

\* strncmp(commands[i].name, cmd, n) == 0
StrncmpEq(i, cmd, n) ==
    \A k \in 0..(n - 1) :
        (\A j \in 0..(k - 1) : cmd[j + 1] # NUL) => NameChar(i, k) = cmd[k + 1]

\* ForLoop with the last match remembered instead of the first
RECURSIVE ForLoopLastWins(_, _, _, _, _)
ForLoopLastWins(i, cmd, c, first, matches) ==
    IF i >= NCommands
    THEN [first |-> first, matches |-> matches]
    ELSE IF Len(cmd) > 1 /\ ~StrncmpEq(i, cmd, Len(cmd) - 1)
    THEN [first |-> first, matches |-> matches]
    ELSE IF NameChar(i, Len(cmd) - 1) = c
    THEN ForLoopLastWins(i + 1, cmd, c, i, matches + 1)
    ELSE ForLoopLastWins(i + 1, cmd, c, first, matches)

\* the for loop over the table, lines 489-503, from entry i on; cmd holds the
\* len bytes copied so far, c is the byte at the cursor
RECURSIVE ForLoop(_, _, _, _, _)
ForLoop(i, cmd, c, first, matches) ==
    IF i >= NCommands
    THEN [first |-> first, matches |-> matches]
    ELSE IF Len(cmd) > 1 /\ ~StrncmpEq(i, cmd, Len(cmd) - 1)
    THEN [first |-> first, matches |-> matches]
    ELSE IF NameChar(i, Len(cmd) - 1) = c
    THEN ForLoop(i + 1, cmd, c, IF matches = 0 THEN i ELSE first, matches + 1)
    ELSE ForLoop(i + 1, cmd, c, first, matches)

\* the do-while loop, lines 485-505: NameLoop copies the byte at the cursor
\* and scans the table, NameStep moves the cursor and tests the condition
RECURSIVE NameLoop(_, _, _, _)
NameStep(m, p2, cmd2, f) ==
    IF f.matches > 0 /\ Char(m, p2) # NUL /\ Char(m, p2) # " " /\ Char(m, p2) # "!"
    THEN NameLoop(m, p2, f.first, cmd2)
    ELSE [pos |-> p2, first |-> f.first, matches |-> f.matches, cmd |-> cmd2]

NameScan(m, p, first, cmd2) ==
    NameStep(m, p + 1, cmd2, ForLoop(first, cmd2, Char(m, p), first, 0))

NameLoop(m, p, first, cmd) == NameScan(m, p, first, Append(cmd, Char(m, p)))

\* TokenLoop ending the word at '!' too, as the name loop does
RECURSIVE TokenLoopStopsAtBang(_, _, _)
TokenLoopStopsAtBang(m, p, cmd) ==
    IF Len(cmd) < CmdBufLen /\ Char(m, p) # " " /\ Char(m, p) # "!"
    THEN TokenLoopStopsAtBang(m, p + 1, Append(cmd, Char(m, p)))
    ELSE [pos |-> p, cmd |-> cmd]

\* the for loop that collects the word for the error message, lines 511-513;
\* it stops at a space or when the buffer is full, not at the end of the input
RECURSIVE TokenLoop(_, _, _)
TokenLoop(m, p, cmd) ==
    IF Len(cmd) < CmdBufLen /\ Char(m, p) # " "
    THEN TokenLoop(m, p + 1, Append(cmd, Char(m, p)))
    ELSE [pos |-> p, cmd |-> cmd]

UnknownCommand == S2Q("Unknown command: ")

\* lines 514-517: cmd[len] = '\0' is written at index termIndex, the message
\* shows cmd up to its first NUL
NameUnknown(a, t) ==
    [ok |-> FALSE, pos |-> t.pos, arg |-> a, termIndex |-> Len(t.cmd),
     token |-> CStr(t.cmd)]

\* lines 520-525
NameFound(a, p, info, first) ==
    [ok |-> TRUE, pos |-> p,
     arg |-> [a EXCEPT !.idx = first, !.code = info.code, !.name = info.name,
                       !.flags = info.flags],
     termIndex |-> 0, token |-> <<>>]

NameDone(m, a, n) ==
    IF n.matches = 0
    THEN NameUnknown(a, TokenLoop(m, n.pos, n.cmd))
    ELSE NameFound(a, n.pos, commands[n.first + 1], n.first)

parse_command_name(m, p, a) == NameDone(m, a, NameLoop(m, p, 0, <<>>))

-----------------------------------------------------------------------------
(* parse_bang *)

parse_bang(m, p, a) ==
    IF Char(m, p) = "!"
    THEN [pos |-> p + 1, arg |-> [a EXCEPT !.bang = TRUE]]
    ELSE [pos |-> p, arg |-> a]

-----------------------------------------------------------------------------
(* parse_lhs *)

quote == "\\"

\* LhsLoop dropping the backslash before every character
RECURSIVE LhsLoopDropsQuote(_, _, _)
LhsLoopDropsQuote(m, p, lhs) ==
    IF Char(m, p) # NUL /\ Char(m, p) # " "
    THEN IF Char(m, p) = quote
         THEN LhsLoopDropsQuote(m, p + 2, Append(lhs, Char(m, p + 1)))
         ELSE LhsLoopDropsQuote(m, p + 1, Append(lhs, Char(m, p)))
    ELSE [pos |-> p, text |-> lhs]

\* the while loop, lines 553-574.  The test `!*input' after the backslash
\* looks at the pointer, which is never null, so a backslash before the end
\* of the input takes the last branch with the NUL byte as next char.
RECURSIVE LhsLoop(_, _, _)
LhsLoop(m, p, lhs) ==
    IF Char(m, p) # NUL /\ Char(m, p) # " "
    THEN IF Char(m, p) = quote
         THEN IF Char(m, p + 1) = " "
              THEN LhsLoop(m, p + 2, Append(lhs, Char(m, p + 1)))
              ELSE LhsLoop(m, p + 2, lhs \o <<quote, Char(m, p + 1)>>)
         ELSE LhsLoop(m, p + 1, Append(lhs, Char(m, p)))
    ELSE [pos |-> p, text |-> lhs]

LhsDone(a, r) == [pos |-> r.pos, arg |-> [a EXCEPT !.lhs = r.text]]

parse_lhs(m, p, a) ==
    IF Char(m, p) = NUL
    THEN [pos |-> p, arg |-> a]
    ELSE LhsDone(a, LhsLoop(m, p, a.lhs))

-----------------------------------------------------------------------------
(* parse_rhs and expand_input *)

\* g_get_home_dir()
HomeDir == S2Q("/h")

\* expand_input: leaves the cursor on the last byte it used
expand_input(m, p, rhs) ==
    IF Char(m, p) = "%"
    THEN [pos |-> p, text |-> IF uri # NULL THEN rhs \o uri ELSE rhs]
    ELSE \* '~'
         IF Char(m, p + 1) = "/"
         THEN [pos |-> p + 1, text |-> rhs \o HomeDir \o <<"/">>]
         ELSE [pos |-> p + 1, text |-> rhs]

\* the while loop, lines 590-616
RECURSIVE RhsLoop(_, _, _, _)
RhsAfterExpand(m, e, flags) == RhsLoop(m, e.pos + 1, e.text, flags)

RhsLoop(m, p, rhs, flags) ==
    IF Char(m, p) # NUL /\ Char(m, p) # "\n" /\ Char(m, p) # "|"
    THEN IF Char(m, p) = quote
         THEN IF Char(m, p + 1) = "|"
              THEN RhsLoop(m, p + 2, Append(rhs, Char(m, p + 1)), flags)
              ELSE RhsLoop(m, p + 2, rhs \o <<quote, Char(m, p + 1)>>, flags)
         ELSE IF EX_FLAG_EXP \in flags /\ Char(m, p) \in {"%", "~"}
              THEN RhsAfterExpand(m, expand_input(m, p, rhs), flags)
              ELSE RhsLoop(m, p + 1, Append(rhs, Char(m, p)), flags)
    ELSE [pos |-> p, text |-> rhs]

RhsDone(a, r) == [pos |-> r.pos, arg |-> [a EXCEPT !.rhs = r.text]]

parse_rhs(m, p, a) ==
    IF Char(m, p) = NUL
    THEN [pos |-> p, arg |-> a]
    ELSE RhsDone(a, RhsLoop(m, p, a.rhs, a.flags))

-----------------------------------------------------------------------------
(* parse *)

\* the ExArg as g_new0 and g_string_new("") leave it in ex_run_string
NewArg ==
    [count |-> 0, idx |-> 0, name |-> NULL, code |-> "EX_BMA", bang |-> FALSE,
     lhs |-> <<>>, rhs |-> <<>>, flags |-> {}]

\* g_string_truncate of lhs and rhs, lines 422-423
Truncate(a) == [a EXCEPT !.lhs = <<>>, !.rhs = <<>>]

\* What one call of parse gives: the outcome (ok, the new cursor pos, the
\* ExArg, the word of the error message and whether a message was shown)
\* and tr, the cursor positions the call went through.
ParseResult(ok, said, p, a, token, termIndex, tr) ==
    [ok |-> ok, said |-> said, pos |-> p, arg |-> a, token |-> token,
     termIndex |-> termIndex, tr |-> tr]

\* lines 452-456: step over one more byte unless the input ends here
ParseEnd(m, tr, r) ==
    ParseResult(TRUE, FALSE,
                IF Char(m, r.pos) # NUL THEN r.pos + 1 ELSE r.pos,
                r.arg, <<>>, 0, tr @@ [rhsEnd |-> r.pos])

\* lines 446-450
ParseRhs(m, tr, p4, a) ==
    ParseEnd(m, tr @@ [rhsStart |-> p4],
             IF EX_FLAG_RHS \in a.flags
             THEN parse_rhs(m, p4, a)
             ELSE [pos |-> p4, arg |-> a])

ParseAfterLhs(m, tr, l) ==
    ParseRhs(m, tr @@ [lhsEnd |-> l.pos], skip_whitespace(m, l.pos), l.arg)

\* lines 441-445
ParseLhs(m, tr, p3, a) ==
    ParseAfterLhs(m, tr @@ [lhsStart |-> p3],
                  IF EX_FLAG_LHS \in a.flags
                  THEN parse_lhs(m, p3, a)
                  ELSE [pos |-> p3, arg |-> a])

ParseAfterBang(m, tr, b) == ParseLhs(m, tr, skip_whitespace(m, b.pos), b.arg)

\* lines 432-439
ParseAfterName(m, tr, n) ==
    IF ~n.ok
    THEN ParseResult(FALSE, TRUE, n.pos, n.arg, n.token, n.termIndex,
                     tr @@ [nameEnd |-> n.pos, lhsStart |-> n.pos, lhsEnd |-> n.pos,
                            rhsStart |-> n.pos, rhsEnd |-> n.pos])
    ELSE ParseAfterBang(m, tr @@ [nameEnd |-> n.pos],
                        IF EX_FLAG_BANG \in n.arg.flags
                        THEN parse_bang(m, n.pos, n.arg)
                        ELSE [pos |-> n.pos, arg |-> n.arg])

ParseName(m, tr, p2, a) ==
    ParseAfterName(m, tr @@ [nameStart |-> p2], parse_command_name(m, p2, a))

\* lines 429-431
ParseAfterCount(m, tr, c) == ParseName(m, tr, skip_whitespace(m, c.pos), c.arg)

ParseCount(m, tr, p1, a) ==
    ParseAfterCount(m, tr @@ [countStart |-> p1], parse_count(m, p1, a))

parse(m, p, a) ==
    IF Char(m, p) = NUL
    THEN ParseResult(FALSE, FALSE, p, a, <<>>, 0,
                     [start |-> p, countStart |-> p, nameStart |-> p, nameEnd |-> p,
                      lhsStart |-> p, lhsEnd |-> p, rhsStart |-> p, rhsEnd |-> p])
    ELSE ParseCount(m, [start |-> p], SkipLeading(m, p), Truncate(a))

-----------------------------------------------------------------------------
(* execute and the handlers *)

HasChar(s, c) == \E i \in 1..Len(s) : s[i] = c

\* The values the handler of the parsed command can return.  Where the
\* handler asks a collaborator (bookmarks, settings, the web view, a child
\* process) either value is possible.
execute(a) ==
    LET f == commands[a.idx + 1].func
    IN  CASE f = "ex_hardcopy" -> {TRUE}
          [] f = "ex_quit"     -> {TRUE}
          [] f = "ex_normal"   -> {TRUE}
          [] f = "ex_map"      -> IF Len(a.lhs) = 0 \/ Len(a.rhs) = 0 THEN {FALSE} ELSE {TRUE}
          [] f = "ex_unmap"    -> IF Len(a.lhs) = 0 THEN {FALSE} ELSE {TRUE}
          [] f = "ex_eval"     -> IF Len(a.rhs) = 0 THEN {FALSE} ELSE BOOLEAN
          [] f = "ex_set"      -> IF Len(a.rhs) = 0 THEN {FALSE} ELSE BOOLEAN
          [] f = "ex_shellcmd" -> IF CStr(a.rhs) = <<>> THEN {FALSE} ELSE BOOLEAN
          [] f = "ex_shortcut" ->
                IF a.code = "EX_SCA" /\ ~(Len(a.rhs) > 0 /\ HasChar(CStr(a.rhs), "="))
                THEN {FALSE} ELSE BOOLEAN
          [] OTHER             -> BOOLEAN   \* ex_bookmark, ex_open, ex_queue, ex_save

-----------------------------------------------------------------------------
(* The lines the model runs *)

Strings(A, n) == UNION {[1..k -> A] : k \in 0..n}

ArgAlphabet == {"a", " ", "\\", "|", "%"}
ArgCommands == {"cunmap", "bma", "save"}
ArgLines ==
    {S2Q(c) \o <<" ">> \o s : c \in ArgCommands, s \in Strings(ArgAlphabet, MaxArgLen)}

Names == {CommandsWithQueue[i].name : i \in 1..Len(CommandsWithQueue)}
NamePrefixes == UNION {{SubSeq(n, 1, k) : k \in 1..Len(n)} : n \in Names}
NameEndings == {<<>>, S2Q(" a"), S2Q("!")}
NameLines ==
    {t \o e : t \in NamePrefixes, e \in NameEndings}
    \cup {t \o <<"x">> \o e : t \in NamePrefixes, e \in {<<>>, S2Q(" a")}}

MaxWordLen == 22
WordLines ==
    {[i \in 1..k |-> "z"] \o e : k \in 1..MaxWordLen, e \in {<<>>, S2Q(" a"), S2Q("|quit")}}

Simple ==
    {"quit", "hardcopy", "open x", "cunmap a", "normal! a", "normal b",
     "2open a", "3open b", "12bma", "set", "frob"}
Separators == {"|", " |", "\n"}
ChainLines ==
    {S2Q(c1) \o S2Q(sp) \o S2Q(c2) : c1 \in Simple, sp \in Separators, c2 \in Simple}
    \cup {S2Q(c1) \o S2Q(" |") \o S2Q(c2) \o S2Q(" |") \o S2Q(c3) :
            c1 \in {"quit", "open x", "2set a", "frob"},
            c2 \in {"quit", "open x", "2set a", "frob"},
            c3 \in {"quit", "3open x"}}

OtherLines ==
    {S2Q(l) : l \in {"", ":", ": ", "12", "25o example.com", ":o %", ":frobnicate",
                     ":frobnicate|quit", "frob nicate", "quit foo|open x", "frob!x y", "open a| ",
                     "normal! a |normal b", "cmap a\\ b c\\|d", "cmap a", "cmap \\", "save %", "save ~/a", "save ~a", "save ~",
                     "!ls", "o \\"}}

Lines == OtherLines \cup ChainLines \cup WordLines \cup NameLines \cup ArgLines

\* bytes found behind the line's terminating NUL
Tails == {<<>>, <<"x", " ", "q">>, S2Q("|q |q |q")}

\* addresses of the current page
Uris == {NULL, S2Q("U/")}

-----------------------------------------------------------------------------
(* ex_run_string *)

Init ==
    /\ featureQueue \in BOOLEAN
    /\ uri \in Uris
    /\ line = <<>>
    /\ mem = <<NUL>>
    /\ input = 1
    /\ arg = NewArg
    /\ pc = "idle"
    /\ iters = <<>>
    /\ echo = <<>>
    /\ result = "none"
    /\ inputbox = <<>>
    /\ excomp = [count |-> 0, prefix |-> NULL, current |-> NULL]
    /\ exhist = [prefix |-> NULL, query |-> NULL, entries |-> <<>>, cursor |-> 0]
    /\ comp = [active |-> FALSE, list |-> <<>>, idx |-> 0]
    /\ last = [op |-> "none"]
    /\ keys = 0

\* entry of ex_run_string, lines 397-399
ex_run_string(l, t) ==
    /\ pc = "idle"
    /\ line' = l
    /\ mem' = l \o <<NUL>> \o t
    /\ input' = 1
    /\ arg' = NewArg
    /\ iters' = <<>>
    /\ echo' = <<>>
    /\ result' = "none"
    /\ pc' = "loop"
    /\ UNCHANGED <<featureQueue, uri>>

Start ==
    /\ pc = "idle"
    /\ \E l \in Lines, t \in Tails : ex_run_string(l, t)
    /\ UNCHANGED uivars

Iter(r, executed, ret) ==
    [ok |-> r.ok, tr |-> r.tr, end |-> r.pos, arg |-> r.arg, token |-> r.token,
     termIndex |-> r.termIndex, executed |-> executed, ret |-> ret]

\* lines 402-405 when parse fails: free_cmdarg, return false
ParseFail(r) ==
    /\ ~r.ok
    /\ input' = r.pos
    /\ arg' = r.arg
    /\ iters' = Append(iters, Iter(r, FALSE, FALSE))
    /\ echo' = IF r.said
               THEN Append(echo, [type |-> "VB_MSG_ERROR",
                                  text |-> UnknownCommand \o r.token])
               ELSE echo
    /\ result' = FALSE
    /\ pc' = "done"
    /\ UNCHANGED <<featureQueue, uri, line, mem>>

\* Dispatch going on with the next command whatever the handler returns
DispatchIgnoresResult(r, ret) ==
    /\ r.ok
    /\ ret \in execute(r.arg)
    /\ input' = r.pos
    /\ arg' = r.arg
    /\ iters' = Append(iters, Iter(r, TRUE, ret))
    /\ pc' = "loop" /\ result' = result
    /\ UNCHANGED <<featureQueue, uri, line, mem, echo>>

\* lines 402-405 when parse succeeds: the handler runs and returns ret
Dispatch(r, ret) ==
    /\ r.ok
    /\ ret \in execute(r.arg)
    /\ input' = r.pos
    /\ arg' = r.arg
    /\ iters' = Append(iters, Iter(r, TRUE, ret))
    /\ IF ret
       THEN pc' = "loop" /\ result' = result
       ELSE pc' = "done" /\ result' = FALSE
    /\ UNCHANGED <<featureQueue, uri, line, mem, echo>>

HandlerTrue(r) == Dispatch(r, TRUE)
HandlerFalse(r) == Dispatch(r, FALSE)

LoopBody(r) == ParseFail(r) \/ HandlerTrue(r) \/ HandlerFalse(r)

\* one iteration of the while loop, lines 401-406
Iteration ==
    /\ pc = "loop"
    /\ Char(mem, input) # NUL
    /\ LoopBody(parse(mem, input, arg))
    /\ UNCHANGED uivars

\* the while condition fails: free_cmdarg, return true
LoopExit ==
    /\ pc = "loop"
    /\ Char(mem, input) = NUL
    /\ result' = TRUE
    /\ pc' = "done"
    /\ UNCHANGED <<featureQueue, uri, line, mem, input, arg, iters, echo>>
    /\ UNCHANGED uivars

\* the caller has the result; the next line can be run
Return ==
    /\ pc = "done"
    /\ pc' = "idle"
    /\ line' = <<>>
    /\ mem' = <<NUL>>
    /\ input' = 1
    /\ arg' = NewArg
    /\ iters' = <<>>
    /\ echo' = <<>>
    /\ result' = "none"
    /\ UNCHANGED <<featureQueue, uri>>
    /\ UNCHANGED uivars

Next == Start \/ Iteration \/ LoopExit \/ Return

Spec == Init /\ [][Next]_vars

-----------------------------------------------------------------------------
(* The input box: what the completion widget and the lists of candidates do *)

g_str_has_prefix(str, prefix) ==
    Len(prefix) <= Len(str) /\ SubSeq(str, 1, Len(prefix)) = prefix

\* the string a cursor p into buffer m points to
RECURSIVE Rest(_, _)
Rest(m, p) == IF Char(m, p) = NUL THEN <<>> ELSE <<Char(m, p)>> \o Rest(m, p + 1)

\* the number n as "%d" writes it
RECURSIVE DecimalText(_)
DecimalText(n) ==
    IF n < 10 THEN <<Digits[n + 1]>>
    ELSE DecimalText(n \div 10) \o <<Digits[(n % 10) + 1]>>

\* order of the characters for the ascending sort of a candidate list
Collation == S2Q(" !/0123456789:?abcdefghijklmnopqrstuvwxyz")
Rank(c) == IF \E i \in 1..Len(Collation) : Collation[i] = c
           THEN CHOOSE i \in 1..Len(Collation) : Collation[i] = c
           ELSE 0
RECURSIVE Before(_, _)
Before(a, b) ==
    IF a = <<>> THEN b # <<>>
    ELSE IF b = <<>> THEN FALSE
    ELSE IF Head(a) = Head(b) THEN Before(Tail(a), Tail(b))
    ELSE Rank(Head(a)) < Rank(Head(b))
RECURSIVE Insert(_, _)
Insert(x, sorted) ==
    IF sorted = <<>> THEN <<x>>
    ELSE IF Before(Head(sorted), x) \/ Head(sorted) = x
    THEN <<Head(sorted)>> \o Insert(x, Tail(sorted))
    ELSE <<x>> \o sorted
\* gtk_tree_sortable_set_sort_column_id(..., GTK_SORT_ASCENDING)
RECURSIVE SortAscending(_)
SortAscending(store) ==
    IF store = <<>> THEN <<>> ELSE Insert(Head(store), SortAscending(Tail(store)))

\* the state a key handler works on: the input box, excomp, the completion
\* widget, and sel, the match given to the last call of completion_select
\* (NULL: not called)
Ui == [box |-> inputbox, excomp |-> excomp, comp |-> comp, sel |-> NULL]

\* lines 1013-1017
SelectCurrent(e, match) ==
    IF e.count # 0
    THEN e.prefix \o DecimalText(e.count) \o match
    ELSE e.prefix \o match

\* completion_select with the count left out
completion_select_without_count(u, match) ==
    [u EXCEPT !.excomp.current = u.excomp.prefix \o match,
              !.box = u.excomp.prefix \o match,
              !.sel = match]

\* lines 1009-1019: excomp.current is rebuilt and written to the input box
completion_select(u, match) ==
    [u EXCEPT !.excomp.current = SelectCurrent(u.excomp, match),
              !.box = SelectCurrent(u.excomp, match),
              !.sel = match]

\* The completion widget.  Its cursor goes one candidate on in the asked
\* direction; at the end of the list it wraps or stays (wrap).
NextIdx(idx, n, back, wrap) ==
    IF back
    THEN IF idx = 0 THEN n
         ELSE IF idx = 1 THEN (IF wrap THEN n ELSE 1)
         ELSE idx - 1
    ELSE IF idx >= n THEN (IF wrap THEN 1 ELSE n)
         ELSE idx + 1

\* the widget moves its cursor and calls back with the candidate there
SelectAt(u, i) == completion_select([u EXCEPT !.comp.idx = i], u.comp.list[i])
completion_next(u, back, pol) ==
    SelectAt(u, NextIdx(u.comp.idx, Len(u.comp.list), back, pol.wrap))

\* the widget takes the list, sets FLAG_COMPLETION and selects the first
\* candidate in the asked direction
completion_create(u, store, back, pol) ==
    completion_next([u EXCEPT !.comp = [active |-> TRUE, list |-> store, idx |-> 0]],
                    back, pol)

completion_clean(u) == [u EXCEPT !.comp = [active |-> FALSE, list |-> <<>>, idx |-> 0]]

Policies == [wrap : BOOLEAN]

\* what bookmark_fill_completion, history_fill_completion,
\* setting_fill_completion and bookmark_fill_tag_completion can put into the
\* store; they report found exactly if they put something there
CandidateLists == {<<>>, <<S2Q("y"), S2Q("x")>>}

\* ex_fill_completion, lines 325-352
RECURSIVE FillFrom(_, _)
FillFrom(i, in) ==
    IF i >= NCommands THEN <<>>
    ELSE IF in = <<>> \/ g_str_has_prefix(commands[i + 1].name, in)
    THEN <<commands[i + 1].name>> \o FillFrom(i + 1, in)
    ELSE FillFrom(i + 1, in)
ex_fill_completion(in) == FillFrom(0, in)

-----------------------------------------------------------------------------
(* complete *)

\* what a call of complete did: the state it leaves, whether it stepped the
\* widget (lines 910-915), whether it built a list (from line 923 on),
\* the list, the source asked for candidates, the messages given to vb_echo
Completed(u, stepped, store, source, msgs) ==
    [u |-> u, stepped |-> stepped, built |-> ~stepped /\ source # "stop",
     found |-> store # <<>>, store |-> store, source |-> source, msgs |-> msgs]

\* line 909 with the test negated
CompleteSteppingNegated(u) ==
    u.excomp.current # NULL /\ u.excomp.current # u.box

\* line 909: excomp.current && !strcmp(input, excomp.current)
CompleteStepping(u) ==
    u.excomp.current # NULL /\ u.excomp.current = u.box

\* CompleteFinish without the test of found: the widget is given the store
\* even if it is empty
CompleteFinishUntested(u, store, sort, source, msgs, direction, pol) ==
    Completed(IF store # <<>>
              THEN completion_create(u, IF sort THEN SortAscending(store) ELSE store,
                                     direction < 0, pol)
              ELSE [u EXCEPT !.comp = [active |-> TRUE, list |-> <<>>, idx |-> 0]],
              FALSE, store, source, msgs)

\* lines 991-999: the store is sorted if asked and given to the widget if
\* something was found
CompleteFinish(u, store, sort, source, msgs, direction, pol) ==
    Completed(IF store # <<>>
              THEN completion_create(u, IF sort THEN SortAscending(store) ELSE store,
                                     direction < 0, pol)
              ELSE u,
              FALSE, store, source, msgs)

\* CompleteArgument asking the history whatever the argument starts with
CompleteArgumentNoBookmarks(u, m, code, in, ext, direction, pol) ==
    CASE code \in {"EX_OPEN", "EX_TABOPEN"} ->
            CompleteFinish(u, ext, FALSE, "history_fill_completion", <<>>, direction, pol)
      [] code = "EX_SET" ->
            CompleteFinish(u, ext, TRUE, "setting_fill_completion", <<>>, direction, pol)
      [] code = "EX_BMA" ->
            CompleteFinish(u, ext, TRUE, "bookmark_fill_tag_completion", <<>>,
                           direction, pol)
      [] OTHER ->
            CompleteFinish(u, <<>>, FALSE, "none", <<>>, direction, pol)

\* lines 943-965: the candidates of the argument of the command; in is the
\* cursor behind the spaces that follow the name
CompleteArgument(u, m, code, in, ext, direction, pol) ==
    CASE code \in {"EX_OPEN", "EX_TABOPEN"} ->
            CompleteFinish(u, ext, FALSE,
                           IF Char(m, in) = "!" THEN "bookmark_fill_completion"
                           ELSE "history_fill_completion",
                           <<>>, direction, pol)
      [] code = "EX_SET" ->
            CompleteFinish(u, ext, TRUE, "setting_fill_completion", <<>>, direction, pol)
      [] code = "EX_BMA" ->
            CompleteFinish(u, ext, TRUE, "bookmark_fill_tag_completion", <<>>,
                           direction, pol)
      [] OTHER ->
            CompleteFinish(u, <<>>, FALSE, "none", <<>>, direction, pol)

\* lines 966-978: the candidates are command names
CompleteNames(u, store, msgs, direction, pol) ==
    CompleteFinish(IF store # <<>> THEN [u EXCEPT !.excomp.prefix = <<":">>] ELSE u,
                   store, FALSE, "ex_fill_completion", msgs, direction, pol)

NameMessages(n) ==
    IF n.ok THEN <<>>
    ELSE << [type |-> "VB_MSG_ERROR", text |-> UnknownCommand \o n.token] >>

\* lines 940-978; c is what parse_count left, n what parse_command_name left
CompleteAfterName(u, m, c, n, ext, direction, pol) ==
    IF n.ok /\ Char(m, n.pos) = " "
    THEN CompleteArgument([u EXCEPT !.excomp.prefix = SubSeq(u.box, 1, n.pos)],
                          m, n.arg.code, skip_whitespace(m, n.pos), ext, direction, pol)
    ELSE CompleteNames([u EXCEPT !.excomp.count = c.arg.count],
                       ex_fill_completion(Rest(m, c.pos)), NameMessages(n),
                       direction, pol)

\* lines 926-938
CompleteCommand(u, m, c, ext, direction, pol) ==
    CompleteAfterName(u, m, c, parse_command_name(m, c.pos, c.arg), ext, direction, pol)

\* lines 981-987
CompleteSearch(u, m, ext, direction, pol) ==
    CompleteFinish(IF ext # <<>> THEN [u EXCEPT !.excomp.prefix = <<Char(m, 1)>>] ELSE u,
                   ext, ext # <<>>, "history_fill_completion", <<>>, direction, pol)

\* lines 923-1001; m is the input text as a C string
CompleteBuild(u, m, ext, direction, pol) ==
    IF Char(m, 1) = ":"
    THEN CompleteCommand(u, m, parse_count(m, skip_whitespace(m, 2), NewArg),
                         ext, direction, pol)
    ELSE IF Char(m, 1) = "/" \/ Char(m, 1) = "?"
    THEN CompleteSearch(u, m, ext, direction, pol)
    ELSE CompleteFinish(u, <<>>, FALSE, "none", <<>>, direction, pol)

\* lines 892-1002; ext is what a collaborator asked for candidates would
\* deliver, pol what the widget does
complete(u, direction, ext, pol) ==
    IF direction = 0
    THEN Completed(completion_clean(u), FALSE, <<>>, "stop", <<>>)
    ELSE IF u.comp.active /\ CompleteStepping(u)
    THEN Completed(completion_next(u, direction < 0, pol), TRUE, <<>>, "none", <<>>)
    ELSE CompleteBuild(IF u.comp.active THEN completion_clean(u) ELSE u,
                       u.box \o <<NUL>>, ext, direction, pol)

-----------------------------------------------------------------------------
(* history *)

\* what history_get_list can return: the entries of the asked type that
\* match the query, none when there are none
HistoryLists == {<<>>, <<S2Q("a")>>, <<S2Q("a"), S2Q("open "), S2Q("b")>>}

Active(h) == h.cursor # 0
\* line 1032: exhist.prefix followed by the entry exhist.active points to
HistCurrent(h) == h.prefix \o h.entries[h.cursor]

\* lines 1085-1094
\* line 1089: g_list_free_full(exhist.active, g_free) frees the node it is
\* given and the nodes behind it, with their entries
Freed(h) == IF Active(h) THEN SubSeq(h.entries, h.cursor, Len(h.entries)) ELSE <<>>

history_rewind(h) ==
    IF Active(h)
    THEN [h EXCEPT !.entries = <<>>, !.cursor = 0, !.prefix = NULL]
    ELSE h

\* what a call of history did: exhist and the input box as it leaves them,
\* its return value, the fetch it made (<<>>: none, <<f>>: the fetch f) and the position the
\* cursor was moved from (0: not moved)
Stepped(h, box, ret, fetch, from) ==
    [h |-> h, box |-> box, ret |-> ret, fetch |-> fetch, from |-> from]

Fetch(type, query, list) == [type |-> type, query |-> query, list |-> list]

\* HistoryMove with the two directions exchanged
HistoryMoveReversed(h, prev) ==
    IF prev
    THEN IF h.cursor > 1 THEN [h EXCEPT !.cursor = h.cursor - 1] ELSE h
    ELSE IF h.cursor < Len(h.entries) THEN [h EXCEPT !.cursor = h.cursor + 1] ELSE h

\* lines 1067-1073: g_list_next for prev, g_list_previous otherwise
HistoryMove(h, prev) ==
    IF prev
    THEN IF h.cursor < Len(h.entries) THEN [h EXCEPT !.cursor = h.cursor + 1] ELSE h
    ELSE IF h.cursor > 1 THEN [h EXCEPT !.cursor = h.cursor - 1] ELSE h

\* lines 1075-1078: vb_echo_force writes the entry to the input box
HistoryWrite(h, fetch, from) == Stepped(h, HistCurrent(h), TRUE, fetch, from)

\* lines 1054-1064: the type of history for the sigil c
HistoryType(c) ==
    IF c = ":" THEN "VB_INPUT_COMMAND" ELSE "VB_INPUT_SEARCH_FORWARD"

\* lines 1062-1066 and what follows: the fetched list becomes the session
HistoryFetched(h, box, c, fetch, prev) ==
    IF fetch.list = <<>>
    THEN Stepped(h, box, FALSE, <<fetch>>, 0)
    ELSE HistoryWrite(HistoryMove([h EXCEPT !.entries = fetch.list, !.cursor = 1,
                                            !.prefix = <<c>>], prev),
                      <<fetch>>, 1)

\* HistoryFetch taking every first character for the command sigil
HistoryFetchAnySigil(h, box, m, in, list, prev) ==
    HistoryFetched(h, box, Char(m, in),
                   Fetch(HistoryType(Char(m, in)), Rest(m, in + 1), list), prev)

\* lines 1047-1064; in is the cursor behind the leading spaces
HistoryFetch(h, box, m, in, list, prev) ==
    IF Char(m, in) # ":" /\ Char(m, in) # "/" /\ Char(m, in) # "?"
    THEN Stepped(h, box, FALSE, <<>>, 0)
    ELSE HistoryFetched(h, box, Char(m, in),
                        Fetch(HistoryType(Char(m, in)), Rest(m, in + 1), list), prev)

\* lines 1040-1078, h being exhist after the test of lines 1028-1037
HistoryStep(h, box, m, list, prev) ==
    IF ~Active(h)
    THEN HistoryFetch(h, box, m, skip_whitespace(m, 1), list, prev)
    ELSE HistoryWrite(HistoryMove(h, prev), <<>>, h.cursor)

\* history keeping the session whatever the input box holds
HistoryDiverged_never(h, box) == FALSE

\* lines 1028-1034: the input is not what the session wrote
HistoryDiverged(h, box) == Active(h) /\ box # HistCurrent(h)

\* lines 1021-1083; list is what history_get_list would return
history(h, box, prev, list) ==
    HistoryStep(IF HistoryDiverged(h, box) THEN history_rewind(h) ELSE h,
                box, box \o <<NUL>>, list, prev)

-----------------------------------------------------------------------------
(* The keys of ex_keypress *)

\* one more key is handled
Key == pc = "idle" /\ keys < MaxKeys /\ keys' = keys + 1

\* what the user can have in the input box after editing it
Texts == {S2Q(":"), S2Q(":2o"), S2Q(":set "), S2Q(":quit "),
          S2Q(":frob"), S2Q(":o !"), S2Q(":bma "), S2Q(" :a"), S2Q("/a"), S2Q("abc")}

CompleteDone(r, direction) ==
    /\ inputbox' = r.u.box
    /\ excomp' = r.u.excomp
    /\ comp' = r.u.comp
    /\ echo' = r.msgs
    /\ last' = [op |-> "complete", direction |-> direction, stepped |-> r.stepped,
                built |-> r.built, found |-> r.found, sel |-> r.u.sel,
                source |-> r.source, store |-> r.store]
    /\ UNCHANGED <<featureQueue, uri, line, mem, input, arg, pc, iters, result, exhist>>

Complete(direction) ==
    \E ext \in CandidateLists, pol \in Policies :
        CompleteDone(complete(Ui, direction, ext, pol), direction)

\* KEY_TAB, line 223
KeyTab == Key /\ Complete(1)
\* KEY_SHIFT_TAB, line 227
KeyShiftTab == Key /\ Complete(-1)

HistoryDone(r, prev) ==
    /\ inputbox' = r.box
    /\ exhist' = r.h
    /\ echo' = <<>>
    /\ last' = [op |-> "history", prev |-> prev, ret |-> r.ret, fetch |-> r.fetch,
                from |-> r.from, rewound |-> HistoryDiverged(exhist, inputbox),
                freed |-> IF HistoryDiverged(exhist, inputbox) THEN Freed(exhist)
                          ELSE <<>>]
    /\ UNCHANGED <<featureQueue, uri, line, mem, input, arg, pc, iters, result,
                   excomp, comp>>

History(prev) == \E list \in HistoryLists : HistoryDone(history(exhist, inputbox, prev, list), prev)

\* KEY_UP, line 241
KeyUp == Key /\ History(TRUE)
\* KEY_DOWN, line 245
KeyDown == Key /\ History(FALSE)

\* ex_leave, lines 198-202
ex_leave(u) == completion_clean(u)

\* CTRL('[') and CTRL('C'), lines 230-234: mode_enter('n') leaves the command
\* mode, which calls ex_leave; the input box is emptied
KeyEscape ==
    /\ Key
    /\ comp' = ex_leave(Ui).comp
    /\ inputbox' = <<>>
    /\ echo' = <<>>
    /\ last' = [op |-> "leave"]
    /\ UNCHANGED <<featureQueue, uri, line, mem, input, arg, pc, iters, result,
                   excomp, exhist>>

\* the editing keys, lines 249-283: the text widget changes the input box
Edit ==
    /\ Key
    /\ \E t \in Texts : t # inputbox /\ inputbox' = t
    /\ echo' = <<>>
    /\ last' = [op |-> "edit"]
    /\ UNCHANGED <<featureQueue, uri, line, mem, input, arg, pc, iters, result,
                   excomp, exhist, comp>>

SelectDone(u) ==
    /\ inputbox' = u.box
    /\ excomp' = u.excomp
    /\ comp' = u.comp
    /\ echo' = <<>>
    /\ last' = [op |-> "select", sel |-> u.sel]
    /\ UNCHANGED <<featureQueue, uri, line, mem, input, arg, pc, iters, result, exhist>>

\* the user picks a candidate in the widget, which calls completion_select
Select ==
    /\ Key
    /\ comp.active
    /\ \E i \in 1..Len(comp.list) : i # comp.idx /\ SelectDone(SelectAt(Ui, i))

NextInput == KeyTab \/ KeyShiftTab \/ KeyUp \/ KeyDown \/ KeyEscape \/ Edit \/ Select

\* the address of the page plays no part in completion and history
InitInput == Init /\ uri = NULL

SpecInput == InitInput /\ [][NextInput]_vars

-----------------------------------------------------------------------------
(* Notions the properties are stated with *)

Done == pc = "done"
Iters == 1..Len(iters)
Min(a, b) == IF a < b THEN a ELSE b
Take(s, n) == SubSeq(s, 1, Min(n, Len(s)))
IsPrefix(t, n) == Len(t) <= Len(n) /\ SubSeq(n, 1, Len(t)) = t

\* the name token at p: the characters up to the first space, '!' or end
RECURSIVE NameToken(_, _)
NameToken(m, p) ==
    IF Char(m, p) \in {NUL, " ", "!"} THEN <<>>
    ELSE <<Char(m, p)>> \o NameToken(m, p + 1)

\* the word at p: the characters up to the first space or end
RECURSIVE Word(_, _)
Word(m, p) ==
    IF Char(m, p) \in {NUL, " "} THEN <<>> ELSE <<Char(m, p)>> \o Word(m, p + 1)

\* registry entries (C index) whose name starts with token t
Candidates(t) == {k \in 0..(NCommands - 1) : IsPrefix(t, commands[k + 1].name)}
Lowest(S) == CHOOSE k \in S : \A j \in S : k <= j

\* the handler calls made so far all returned true
AllTrue == \A i \in Iters : iters[i].executed => iters[i].ret

\* C1: a name token that is a prefix of a registered name resolves to the
\* first entry of the table whose name starts with it, and the cursor is
\* left directly behind the token (first defined wins).
C1_FirstDefinedWins ==
    \A i \in Iters :
        LET it == iters[i]
            tok == NameToken(mem, it.tr.nameStart)
        IN  (tok # <<>> /\ Candidates(tok) # {}) =>
                /\ it.ok
                /\ it.arg.idx = Lowest(Candidates(tok))
                /\ it.arg.name = commands[Lowest(Candidates(tok)) + 1].name
                /\ it.tr.nameEnd = it.tr.nameStart + Len(tok)

\* "sh" starts shellcmd and the three shortcut commands: shellcmd is taken
C1_Witness ==
    \E i \in Iters :
        /\ NameToken(mem, iters[i].tr.nameStart) = S2Q("sh")
        /\ iters[i].ok
        /\ iters[i].arg.name = S2Q("shellcmd")
        /\ Cardinality(Candidates(S2Q("sh"))) > 1

\* what C2 says of a command whose name token is in no registered name,
\* with shown(w) the text the message shows for the offending word w
UnknownAborts(shown(_)) ==
    \A i \in Iters :
        LET it == iters[i]
            tok == NameToken(mem, it.tr.nameStart)
        IN  (tok # <<>> /\ Candidates(tok) = {}) =>
                /\ ~it.ok /\ ~it.executed
                /\ i = Len(iters)
                /\ Done /\ result = FALSE
                /\ echo = << [type |-> "VB_MSG_ERROR",
                              text |-> UnknownCommand \o shown(Word(mem, it.tr.nameStart))] >>

WholeWord(w) == w
BufferedWord(w) == Take(w, CmdBufLen)

Alone(c) == parse(S2Q(c) \o <<NUL>>, 1, NewArg)
SameCommand(a, b) == a.idx = b.idx /\ a.lhs = b.lhs /\ a.rhs = b.rhs

\* C4: two commands that parse on their own, joined by '|', are parsed and
\* dispatched one after the other, whatever arguments the first one takes.
C4_BarSeparates ==
    \A c1 \in Simple, c2 \in Simple :
        (/\ line = S2Q(c1) \o <<"|">> \o S2Q(c2)
         /\ Done /\ AllTrue
         /\ Alone(c1).ok /\ Alone(c2).ok) =>
            /\ Len(iters) = 2
            /\ iters[1].executed /\ SameCommand(iters[1].arg, Alone(c1).arg)
            /\ iters[2].executed /\ SameCommand(iters[2].arg, Alone(c2).arg)

\* the decimal value of the digits at p, 0 without digits
RECURSIVE Decimal(_, _, _)
Decimal(m, p, acc) ==
    IF isdigit(Char(m, p)) THEN Decimal(m, p + 1, acc * 10 + DigitVal(Char(m, p)))
    ELSE acc

\* C5: the count of every parsed command is the value of the digits typed
\* before its own name, 0 without digits.
C5_OwnCount ==
    \A i \in Iters :
        iters[i].ok => iters[i].arg.count = Decimal(mem, iters[i].tr.countStart, 0)

\* C6: the bang of every parsed command is set exactly if the command
\* allows a bang and a '!' follows its own name.
C6_OwnBang ==
    \A i \in Iters :
        iters[i].ok =>
            iters[i].arg.bang = (/\ EX_FLAG_BANG \in iters[i].arg.flags
                                 /\ Char(mem, iters[i].tr.nameEnd) = "!")

\* The argument at p as the escaping rule describes it: terms end it, a
\* backslash before esc gives esc, a backslash before another character
\* gives both, a backslash before the end of the input gives one backslash
\* and ends the argument there (dangling).  placeholder: an unescaped '%' or
\* '~' was copied.
RECURSIVE ArgRef(_, _, _, _, _, _)
ArgRef(m, p, terms, esc, text, ph) ==
    IF Char(m, p) = NUL \/ Char(m, p) \in terms
    THEN [text |-> text, pos |-> p, dangling |-> FALSE, placeholder |-> ph]
    ELSE IF Char(m, p) = "\\"
    THEN IF Char(m, p + 1) = NUL
         THEN [text |-> Append(text, "\\"), pos |-> p + 1, dangling |-> TRUE,
               placeholder |-> ph]
         ELSE IF Char(m, p + 1) = esc
         THEN ArgRef(m, p + 2, terms, esc, Append(text, esc), ph)
         ELSE ArgRef(m, p + 2, terms, esc, text \o <<"\\", Char(m, p + 1)>>, ph)
    ELSE ArgRef(m, p + 1, terms, esc, Append(text, Char(m, p)),
                ph \/ Char(m, p) \in {"%", "~"})

LhsRef(it) == ArgRef(mem, it.tr.lhsStart, {" "}, " ", <<>>, FALSE)
RhsRef(it) == ArgRef(mem, it.tr.rhsStart, {"|", "\n"}, "|", <<>>, FALSE)

LhsAsRef(it, ref) == it.arg.lhs = ref.text /\ it.tr.lhsEnd = ref.pos
RhsAsRef(it, ref) == it.arg.rhs = ref.text /\ it.tr.rhsEnd = ref.pos

LhsEscaping(it, ref) ==
    (EX_FLAG_LHS \in it.arg.flags /\ ~ref.dangling) => LhsAsRef(it, ref)
RhsEscaping(it, ref) ==
    (/\ EX_FLAG_RHS \in it.arg.flags
     /\ ~ref.dangling
     /\ (EX_FLAG_EXP \in it.arg.flags => ~ref.placeholder)) => RhsAsRef(it, ref)

\* C7: in lhs (terminator space) and rhs (terminator '|') a backslash before
\* the terminator gives the terminator alone and does not end the argument, a
\* backslash before another character gives both, and an unescaped
\* terminator ends the argument without being part of it.
C7_Escaping ==
    \A i \in Iters :
        iters[i].ok =>
            /\ LhsEscaping(iters[i], LhsRef(iters[i]))
            /\ RhsEscaping(iters[i], RhsRef(iters[i]))

\* "cmap a\ b c\|d"
C7_Witness ==
    \E i \in Iters :
        /\ line = S2Q("cmap a\\ b c\\|d")
        /\ iters[i].ok
        /\ iters[i].arg.lhs = S2Q("a b")
        /\ iters[i].arg.rhs = S2Q("c|d")
        /\ Char(mem, iters[i].tr.rhsEnd) = NUL

\* the backslash that ends the line is read as an escape in the argument
LhsDangling(it, ref) ==
    EX_FLAG_LHS \in it.arg.flags /\ ref.dangling /\ ref.pos = Len(line) + 1
RhsDangling(it, ref) ==
    EX_FLAG_RHS \in it.arg.flags /\ ref.dangling /\ ref.pos = Len(line) + 1

\* C8: a backslash that is the last character of the input gives exactly one
\* backslash in lhs or rhs, and the argument ends at the end of the input.
C8_TrailingBackslash ==
    \A i \in Iters :
        iters[i].ok =>
            /\ LhsDangling(iters[i], LhsRef(iters[i])) => LhsAsRef(iters[i], LhsRef(iters[i]))
            /\ RhsDangling(iters[i], RhsRef(iters[i])) => RhsAsRef(iters[i], RhsRef(iters[i]))

\* a backslash put before every character t of s
RECURSIVE Escape(_, _)
Escape(s, t) ==
    IF s = <<>> THEN <<>>
    ELSE (IF Head(s) = t THEN <<"\\", t>> ELSE <<Head(s)>>) \o Escape(Tail(s), t)

\* C9: every argument string S, escaped and then parsed as the lhs or the
\* rhs of a command without expansion, comes back as S.
C9_RoundTrip ==
    \A S \in Strings(ArgAlphabet, MaxArgLen) :
        /\ (line = S2Q("cunmap ") \o Escape(S, " ") /\ Len(iters) > 0 /\ iters[1].ok)
              => iters[1].arg.lhs = S
        /\ (line = S2Q("bma ") \o Escape(S, "|") /\ Len(iters) > 0 /\ iters[1].ok)
              => iters[1].arg.rhs = S

\* C10: open given '%' gets the address of the current page as rhs, and a
\* command whose table entry has no EX_FLAG_EXP gets an unescaped '%' as typed.
C10_Percent ==
    \A i \in Iters :
        iters[i].ok =>
            /\ (/\ iters[i].arg.name = S2Q("open")
                /\ uri # NULL
                /\ Char(mem, iters[i].tr.rhsStart) = "%"
                /\ Char(mem, iters[i].tr.rhsStart + 1) = NUL) => iters[i].arg.rhs = uri
            /\ (/\ EX_FLAG_RHS \in iters[i].arg.flags
                /\ EX_FLAG_EXP \notin iters[i].arg.flags
                /\ ~RhsRef(iters[i]).dangling) => RhsAsRef(iters[i], RhsRef(iters[i]))

\* C11: in the rhs of a command with EX_FLAG_EXP a leading "~/" becomes the
\* home directory followed by '/', and a leading '~' before anything else is
\* copied as typed, the cursor staying inside the input.
C11_Tilde ==
    \A i \in Iters :
        (/\ iters[i].ok
         /\ EX_FLAG_EXP \in iters[i].arg.flags
         /\ iters[i].tr.rhsStart <= Len(line)
         /\ Char(mem, iters[i].tr.rhsStart) = "~") =>
            IF Char(mem, iters[i].tr.rhsStart + 1) = "/"
            THEN IsPrefix(HomeDir \o <<"/">>, iters[i].arg.rhs)
            ELSE /\ IsPrefix(<<"~">>, iters[i].arg.rhs)
                 /\ iters[i].tr.rhsEnd <= Len(line) + 1

\* C12: a successful parse leaves the cursor behind the arguments or one
\* character further, and that character is then a '|' or a newline.
C12_OneTerminator ==
    \A i \in Iters :
        iters[i].ok =>
            \/ iters[i].end = iters[i].tr.rhsEnd
            \/ /\ iters[i].end = iters[i].tr.rhsEnd + 1
               /\ Char(mem, iters[i].tr.rhsEnd) \in {"|", "\n"}

\* the handler of a fails inside ex.c, before any collaborator is called
FailsInFile(a) == execute(a) = {FALSE}
IsError(msg) == msg.type = "VB_MSG_ERROR"

\* C20: when ex_run_string returns false because parse failed or because a
\* handler gave up on its own (an empty lhs or rhs), an error message was
\* given to vb_echo during the call.
C20_FailureSurfaced ==
    (/\ Done /\ result = FALSE
     /\ Len(iters) > 0
     /\ \/ ~iters[Len(iters)].ok
        \/ FailsInFile(iters[Len(iters)].arg)) =>
        \E k \in 1..Len(echo) : IsError(echo[k])

-----------------------------------------------------------------------------
(* Notions for the keys of the input box *)

Sigils == {":", "/", "?"}
RECURSIVE Trimmed(_)
Trimmed(t) == IF t # <<>> /\ Head(t) = " " THEN Trimmed(Tail(t)) ELSE t
HasSigil(t) == Trimmed(t) # <<>> /\ Head(Trimmed(t)) \in Sigils
TypeFor(t) == IF Head(Trimmed(t)) = ":" THEN "VB_INPUT_COMMAND"
              ELSE "VB_INPUT_SEARCH_FORWARD"

\* this step is a call of history, a call of complete
HistoryKey == last'.op = "history"
CompleteKey == last'.op = "complete"

\* a session is active and the input box is not what it wrote there
Diverged ==
    Active(exhist) /\ inputbox # exhist.prefix \o exhist.entries[exhist.cursor]
\* a session is active and the input box is what it wrote there
Followed ==
    Active(exhist) /\ inputbox = exhist.prefix \o exhist.entries[exhist.cursor]

\* the position one step from position c in a list of n entries
OneStep(c, n, prev) ==
    IF prev THEN (IF c < n THEN c + 1 ELSE c) ELSE (IF c > 1 THEN c - 1 ELSE c)

\* the session of the next state is a new one, made of the list just fetched
NewSession ==
    /\ last'.fetch # <<>>
    /\ last'.fetch[1].type = TypeFor(inputbox)
    /\ last'.fetch[1].query = Tail(Trimmed(inputbox))
    /\ Active(exhist')
    /\ exhist'.entries = last'.fetch[1].list
    /\ exhist'.cursor = OneStep(1, Len(last'.fetch[1].list), last'.prev)

\* the existing session is kept and its cursor stepped, nothing is fetched
SameSession ==
    /\ last'.fetch = <<>> /\ ~last'.rewound
    /\ exhist'.entries = exhist.entries /\ exhist'.prefix = exhist.prefix
    /\ exhist'.cursor = OneStep(exhist.cursor, Len(exhist.entries), last'.prev)

\* C13 as stated: a call of history with a session whose text was edited ends
\* the session and starts a new one with a fresh fetch, type and filter text
\* taken from the edited input; with the text unchanged nothing is fetched
\* and the cursor is stepped.
C13_Original ==
    [][HistoryKey => /\ Diverged => (last'.rewound /\ NewSession)
                     /\ Followed => SameSession]_vars

\* C13 amended: the edited session is ended; a fresh fetch, type and filter
\* text taken from the edited input, is made when that input has a sigil, and
\* a new session starts from the head of the fetched list when the list is
\* not empty; otherwise the call fails and no session is active.
C13_Divergence ==
    [][HistoryKey =>
         /\ Diverged =>
              /\ last'.rewound
              /\ IF HasSigil(inputbox) /\ last'.fetch # <<>> /\ last'.fetch[1].list # <<>>
                 THEN NewSession /\ last'.ret
                 ELSE /\ ~Active(exhist') /\ ~last'.ret
                      /\ HasSigil(inputbox) = (last'.fetch # <<>>)
                      /\ last'.fetch # <<>> =>
                            /\ last'.fetch[1].type = TypeFor(inputbox)
                            /\ last'.fetch[1].query = Tail(Trimmed(inputbox))
         /\ Followed => SameSession]_vars

\* a session was edited, ended, and replaced by a newly fetched one
C13_Witness ==
    /\ last.op = "history" /\ last.rewound /\ last.ret
    /\ last.fetch # <<>> /\ exhist.entries = last.fetch[1].list
    /\ Len(exhist.entries) = 3 /\ exhist.cursor = 2

CursorValid(h) == Active(h) => h.cursor \in 1..Len(h.entries)

\* C14: while a session is active its cursor is a position of the fetched
\* list; a successful call of history moves it one position in the asked
\* direction or leaves it where it is at the end of the list, and the input
\* box then holds the prefix and the entry at the cursor.
C14_CursorValid ==
    [][/\ CursorValid(exhist')
       /\ (HistoryKey /\ last'.ret) =>
             /\ Active(exhist')
             /\ last'.from \in 1..Len(exhist'.entries)
             /\ exhist'.cursor = OneStep(last'.from, Len(exhist'.entries), last'.prev)
             /\ Followed => last'.from = exhist.cursor
             /\ inputbox' = exhist'.prefix \o exhist'.entries[exhist'.cursor]]_vars

\* a step at the end of the list: the call succeeds, the cursor stays
C14_Witness ==
    /\ last.op = "history" /\ last.ret /\ last.prev /\ last.fetch = <<>>
    /\ last.from = 3 /\ exhist.cursor = 3 /\ Len(exhist.entries) = 3
    /\ inputbox = exhist.prefix \o exhist.entries[3]

\* C15: a call of history with input that has no sigil, or for which the
\* fetch returns nothing, returns false, leaves the input box as it is and
\* leaves no session active.
C15_FailedStep ==
    [][(/\ HistoryKey
        /\ \/ ~HasSigil(inputbox)
           \/ last'.fetch # <<>> /\ last'.fetch[1].list = <<>>) =>
            /\ ~last'.ret
            /\ inputbox' = inputbox
            /\ ~Active(exhist')]_vars

\* the session was edited to a text without sigil: the call fails
C15_Witness ==
    /\ last.op = "history" /\ ~last.ret /\ last.rewound /\ last.fetch = <<>>
    /\ inputbox = S2Q("abc") /\ ~Active(exhist)

\* C16: with a completion session active and the input box holding what the
\* last selection wrote, complete only moves the cursor of the widget in the
\* asked direction; a list is built only without a session or with other
\* text in the input box.
C16_Cycling ==
    [][CompleteKey =>
         /\ (comp.active /\ excomp.current # NULL /\ inputbox = excomp.current) =>
               /\ last'.stepped /\ ~last'.built
               /\ comp'.active /\ comp'.list = comp.list
               /\ \E wrap \in BOOLEAN :
                     comp'.idx = NextIdx(comp.idx, Len(comp.list),
                                         last'.direction < 0, wrap)
         /\ last'.built => (~comp.active \/ inputbox # excomp.current)]_vars

\* the second Tab goes to the second candidate
C16_Witness ==
    /\ last.op = "complete" /\ last.stepped /\ last.direction = 1
    /\ comp.active /\ comp.idx = 2 /\ inputbox = excomp.current

\* C17: after completion_select(match) excomp.current is the prefix, the
\* count if it is not zero, and the match, and the input box holds it.
C17_Selection ==
    (last.op \in {"complete", "select"} /\ last.sel # NULL) =>
        /\ excomp.current = excomp.prefix
                            \o (IF excomp.count # 0 THEN DecimalText(excomp.count) ELSE <<>>)
                            \o last.sel
        /\ inputbox = excomp.current

\* ":2o" completed to ":2open"
C17_Witness ==
    /\ last.op = "complete" /\ last.sel = S2Q("open")
    /\ excomp.count = 2 /\ inputbox = S2Q(":2open")

\* C18: a call of complete that finds no candidate leaves the input box as
\* it is, hands no list to the widget and selects nothing.
C18_NoCandidates ==
    [][(CompleteKey /\ last'.built /\ ~last'.found) =>
            /\ inputbox' = inputbox
            /\ ~comp'.active
            /\ last'.sel = NULL]_vars

\* ":frob": no name starts with frob
C18_Witness ==
    /\ last.op = "complete" /\ last.built /\ ~last.found
    /\ inputbox = S2Q(":frob") /\ ~comp.active

\* C19: a completion session and a history session are never active at the
\* same time.
C19_Exclusive == ~(comp.active /\ Active(exhist))

-----------------------------------------------------------------------------
(* The cursor and the end of the input *)

\* the position of the NUL that ends the line
LineEnd == Len(line) + 1

\* the positions the cursor had in iteration it
Positions(it) ==
    {it.tr.start, it.tr.countStart, it.tr.nameStart, it.tr.nameEnd, it.tr.lhsStart,
     it.tr.lhsEnd, it.tr.rhsStart, it.tr.rhsEnd, it.end}

\* C21: in every call of parse, on success and on failure, the cursor stays
\* on the line or on the NUL that ends it.
C21_CursorInside ==
    \A i \in Iters : \A p \in Positions(iters[i]) : p <= LineEnd

\* the text from position p to the end of the line is made of ':' and ' '
SeparatorsOnly(p) ==
    p <= LineEnd /\ \A q \in p..Len(line) : line[q] \in {":", " "}

\* C22: when only separators remain at the top of the run loop, the run ends
\* with no error message and no handler called for them, and ex_run_string
\* returns true if all earlier commands succeeded.
C22_EndOfCommands ==
    \A i \in Iters :
        SeparatorsOnly(iters[i].tr.start) =>
            /\ ~iters[i].executed
            /\ echo = <<>>
            /\ Done => result = TRUE

\* C25: the NUL that ends the word of the error message is written to an
\* index of the name buffer, 0 to 19.
C25_TokenIndex ==
    \A i \in Iters : ~iters[i].ok => iters[i].termIndex \in 0..(CmdBufLen - 1)

\* C27: a call of parse that succeeds moves the cursor on by at least one
\* character, and the run loop goes round at most once for every character
\* of the line.
C27_Terminates ==
    /\ \A i \in Iters : iters[i].ok => iters[i].end > iters[i].tr.start
    /\ Len(iters) <= Len(line)

-----------------------------------------------------------------------------
(* The sessions of the input box *)

\* the count typed in the text t behind the ':' and the spaces
InputCount(t) ==
    parse_count(t \o <<NUL>>, skip_whitespace(t \o <<NUL>>, 2), NewArg).arg.count

\* the count a selection may insert for a session started on the text t that
\* left the prefix p: the count of t for a name, nothing for an argument or
\* a search
OwnCount(t, p) ==
    IF p = <<":">> /\ InputCount(t) # 0 THEN DecimalText(InputCount(t)) ELSE <<>>

\* C23: the text written by the selection that starts a completion session
\* is the prefix, the count of the input that started the session if the
\* candidates are command names and that count is not zero, and the match.
C23_OwnCount ==
    [][(CompleteKey /\ last'.built /\ last'.sel # NULL) =>
          inputbox' = excomp'.prefix \o OwnCount(inputbox, excomp'.prefix) \o last'.sel]_vars

\* C24: a call of history that ends a session frees every entry of the list
\* fetched for that session.
C24_WholeListFreed ==
    [][(HistoryKey /\ last'.rewound) => last'.freed = exhist.entries]_vars

\* the registered names that start with the text t, in the order of the table
RECURSIVE NamesFrom(_, _)
NamesFrom(k, t) ==
    IF k >= NCommands THEN <<>>
    ELSE IF IsPrefix(t, commands[k + 1].name)
    THEN <<commands[k + 1].name>> \o NamesFrom(k + 1, t)
    ELSE NamesFrom(k + 1, t)

\* the source of candidates for the argument of the command with code c, the
\* argument starting with the character first
SourceFor(c, first) ==
    IF c \in {"EX_OPEN", "EX_TABOPEN"}
    THEN (IF first = "!" THEN "bookmark_fill_completion" ELSE "history_fill_completion")
    ELSE IF c = "EX_SET" THEN "setting_fill_completion"
    ELSE IF c = "EX_BMA" THEN "bookmark_fill_tag_completion"
    ELSE "none"

\* The context of a completion of the input m (a C string that starts with
\* ':'), p being the position behind the count and w the name found there:
\* the argument of the command w names
ArgumentContext(m, p, w) ==
    /\ excomp'.prefix = SubSeq(m, 1, p + Len(w))
    /\ last'.source = SourceFor(commands[Lowest(Candidates(w)) + 1].code,
                                Char(m, skip_whitespace(m, p + Len(w))))
    /\ last'.source = "none" => last'.store = <<>>

\* or the command name; with atLeastOne the prefix is required to be ':'
\* only if there is a candidate
NameContext(m, p, atLeastOne) ==
    /\ last'.source = "ex_fill_completion"
    /\ last'.store = NamesFrom(0, Rest(m, p))
    /\ (~atLeastOne \/ last'.store # <<>>) => excomp'.prefix = <<":">>

Context(m, p, w, atLeastOne) ==
    IF w # <<>> /\ Candidates(w) # {} /\ Char(m, p + Len(w)) = " "
    THEN ArgumentContext(m, p, w)
    ELSE NameContext(m, p, atLeastOne)

ContextAt(m, p, atLeastOne) == Context(m, p, NameToken(m, p), atLeastOne)

ContextOf(t, atLeastOne) ==
    ContextAt(t \o <<NUL>>,
              parse_count(t \o <<NUL>>, skip_whitespace(t \o <<NUL>>, 2), NewArg).pos,
              atLeastOne)

StartsWithColon(t) == t # <<>> /\ Head(t) = ":"

\* C26 as stated: for input that starts with ':' the context is the argument
\* of the command named before a space, with the input up to that space as
\* prefix and the source of candidates chosen by the command, and otherwise
\* the command name, with the prefix ':' and the registered names that
\* start with the text behind the count as candidates.
C26_Original ==
    [][(CompleteKey /\ last'.built /\ StartsWithColon(inputbox)) =>
          ContextOf(inputbox, FALSE)]_vars

\* C26 amended: the prefix of a completion of names is ':' when at least one
\* name matches, and is left as it was otherwise.
C26_Context ==
    [][(CompleteKey /\ last'.built /\ StartsWithColon(inputbox)) =>
          /\ ContextOf(inputbox, TRUE)
          /\ (last'.source = "ex_fill_completion" /\ last'.store = <<>>) =>
                excomp'.prefix = excomp.prefix]_vars

\* ':o !' was completed from the bookmarks, with ':o ' as prefix
C26_Witness ==
    /\ last.op = "complete" /\ last.built
    /\ last.source = "bookmark_fill_completion"
    /\ excomp.prefix = S2Q(":o ")
    /\ last.sel # NULL

=============================================================================
